---------------------------- MODULE Spec2Model ----------------------------
(***************************************************************************)
(* Model of meilisearch-lib/src/index/search.rs: Index::perform_search and *)
(* the helpers it calls (filter compilation, format-option planning,       *)
(* document formatting, geo-distance augmentation).                        *)
(*                                                                         *)
(* Strings that the code inspects character by character (attribute        *)
(* names, crop attributes, sort tokens) are sequences of atoms: an atom is *)
(* one character (":", ".", ",", " ", "-", a digit) or an opaque run of    *)
(* characters holding none of those ("title", "_geoPoint(").  Text values  *)
(* of documents are sequences of words.  JSON values are records           *)
(* [t |-> tag, v |-> payload].                                             *)
(***************************************************************************)
EXTENDS Integers, Sequences, FiniteSets, TLC

(***************************************************************************)
(* Program constants and the bounds of the model.                          *)
(***************************************************************************)
HARD_RESULT_LIMIT == 1000

DEFAULT_SEARCH_LIMIT == 20

DEFAULT_CROP_LENGTH == 10

\* The top of the usize range as the model draws it (TLC's integers are
\* 32-bit; the code never adds to or multiplies a usize, so only the order
\* of the value relative to HARD_RESULT_LIMIT matters).
MaxUsize == 1000000

\* Longest filter array (top level and inner) the model draws.
MaxFilterLen == 2

\* Longest attributesToCrop list the model draws.
MaxCropAttrs == 2

\* Longest sort list the model draws.
MaxSortLen == 2

\* Number of stored records of the index the pagination is drawn over.
MaxDocs == 4

\* Deepest nesting of arrays and objects in the values format_value is
\* called on by itself.
MaxNesting == 2

None == [some |-> FALSE]

Some(x) == [some |-> TRUE, val |-> x]

Ok(x) == [ok |-> TRUE, val |-> x]

Err(e) == [ok |-> FALSE, err |-> e]

Min(a, b) == IF a <= b THEN a ELSE b

Range(s) == {s[i] : i \in 1..Len(s)}

SeqsUpTo(S, n) == UNION {[1..k -> S] : k \in 0..n}

(***************************************************************************)
(* serde_json::Value                                                       *)
(***************************************************************************)
JStr(words) == [t |-> "str", v |-> words]

JNum(n) == [t |-> "num", v |-> n]

JBool(b) == [t |-> "bool", v |-> b]

JNull == [t |-> "null", v |-> <<>>]

JArr(items) == [t |-> "arr", v |-> items]

JObj(map) == [t |-> "obj", v |-> map]

EmptyMap == [k \in {} |-> JNull]

(***************************************************************************)
(* Pagination clamp, perform_search lines 93-99.                           *)
(***************************************************************************)
saturating_sub(a, b) == IF a >= b THEN a - b ELSE 0

unwrap_or(opt, d) == IF opt.some THEN opt.val ELSE d

effective_offset(q_offset) == Min(unwrap_or(q_offset, 0), HARD_RESULT_LIMIT)

effective_limit_nosub(q_limit, offset) == Min(q_limit, HARD_RESULT_LIMIT)

effective_limit(q_limit, offset) ==
    Min(q_limit, saturating_sub(HARD_RESULT_LIMIT, offset))

(***************************************************************************)
(* Filter compilation, parse_filter and parse_filter_array.                *)
(***************************************************************************)
InvalidExpression(expected, value) ==
    [kind |-> "InvalidExpression", expected |-> expected, value |-> value]

Left(ors) == [e |-> "Left", v |-> ors]

Right(s) == [e |-> "Right", v |-> s]

\* The external predicate parser on one leaf: the empty text is no
\* condition, a text starting with "!" is a syntax error.
Filter_from_str(expr) ==
    IF expr = <<>> THEN Ok(None)
    ELSE IF expr[1] = "!" THEN Err([kind |-> "InvalidFilter", value |-> expr])
    ELSE Ok(Some([condition |-> <<Right(expr)>>]))

LeavesOf(ands) ==
    UNION {IF ands[i].e = "Right" THEN {ands[i].v} ELSE Range(ands[i].v)
           : i \in 1..Len(ands)}

\* The external predicate builder: a syntax error in any leaf fails, a
\* structure with no condition is no filter, else the AND of the entries.
Filter_from_array(ands) ==
    LET bad == {l \in LeavesOf(ands) : ~Filter_from_str(l).ok}
        conds == {l \in LeavesOf(ands) : Filter_from_str(l).ok /\ Filter_from_str(l).val.some}
    IN  IF bad # {} THEN Err([kind |-> "InvalidFilter", value |-> CHOOSE l \in bad : TRUE])
        ELSE IF conds = {} THEN Ok(None)
        ELSE Ok(Some([condition |-> ands]))

RECURSIVE collect_ors(_, _, _)
collect_ors(arr, j, ors) ==
    IF j > Len(arr) THEN Ok(ors)
    ELSE IF arr[j].t = "str" THEN collect_ors(arr, j + 1, Append(ors, arr[j].v))
    ELSE Err(InvalidExpression(<<"String">>, arr[j]))

RECURSIVE collect_ands_rev(_, _, _)
collect_ands_rev(arr, i, ands) ==
    IF i > Len(arr) THEN Ok(ands)
    ELSE IF arr[i].t = "str"
         THEN collect_ands_rev(arr, i + 1, <<Right(arr[i].v)>> \o ands)
    ELSE IF arr[i].t = "arr"
         THEN LET ors == collect_ors(arr[i].v, 1, <<>>)
              IN  IF ors.ok
                  THEN collect_ands_rev(arr, i + 1, <<Left(ors.val)>> \o ands)
                  ELSE ors
    ELSE Err(InvalidExpression(<<"String", "[String]">>, arr[i]))

RECURSIVE collect_ands_lax(_, _, _)
collect_ands_lax(arr, i, ands) ==
    IF i > Len(arr) THEN Ok(ands)
    ELSE IF arr[i].t = "str"
         THEN collect_ands_lax(arr, i + 1, Append(ands, Right(arr[i].v)))
    ELSE IF arr[i].t = "arr"
         THEN LET ors == collect_ors(arr[i].v, 1, <<>>)
              IN  IF ors.ok
                  THEN collect_ands_lax(arr, i + 1, Append(ands, Left(ors.val)))
                  ELSE collect_ands_lax(arr, i + 1, ands)
    ELSE Err(InvalidExpression(<<"String", "[String]">>, arr[i]))

\* The loop of parse_filter_array: the entries handed to Filter::from_array,
\* or the first shape error.
RECURSIVE collect_ands(_, _, _)
collect_ands(arr, i, ands) ==
    IF i > Len(arr) THEN Ok(ands)
    ELSE IF arr[i].t = "str"
         THEN collect_ands(arr, i + 1, Append(ands, Right(arr[i].v)))
    ELSE IF arr[i].t = "arr"
         THEN LET ors == collect_ors(arr[i].v, 1, <<>>)
              IN  IF ors.ok
                  THEN collect_ands(arr, i + 1, Append(ands, Left(ors.val)))
                  ELSE ors
    ELSE Err(InvalidExpression(<<"String", "[String]">>, arr[i]))

parse_filter_array(arr) ==
    LET ands == collect_ands(arr, 1, <<>>)
    IN  IF ands.ok THEN Filter_from_array(ands.val) ELSE ands

parse_filter(facets) ==
    IF facets.t = "str" THEN Filter_from_str(facets.v)
    ELSE IF facets.t = "arr" THEN parse_filter_array(facets.v)
    ELSE Err(InvalidExpression(<<"Array">>, facets))

\* The external calls parse_filter makes, in order.
parse_filter_calls(facets) ==
    IF facets.t = "str" THEN <<[fn |-> "Filter::from_str", arg |-> facets.v]>>
    ELSE IF facets.t = "arr" /\ collect_ands(facets.v, 1, <<>>).ok
         THEN <<[fn |-> "Filter::from_array",
                 arg |-> collect_ands(facets.v, 1, <<>>).val]>>
    ELSE <<>>

(***************************************************************************)
(* Sort tokens and the geo-distance augmenter, insert_geo_distance.        *)
(***************************************************************************)
DOT == "."

DigitChars == <<"0", "1", "2", "3", "4", "5", "6", "7", "8", "9">>

IsDigit(c) == c \in Range(DigitChars)

DigitVal(c) == (CHOOSE k \in 1..Len(DigitChars) : DigitChars[k] = c) - 1

RECURSIVE Pow10(_)
Pow10(k) == IF k = 0 THEN 1 ELSE 10 * Pow10(k - 1)

RECURSIVE DigitsValue(_)
DigitsValue(ds) ==
    IF ds = <<>> THEN 0
    ELSE 10 * DigitsValue(SubSeq(ds, 1, Len(ds) - 1)) + DigitVal(ds[Len(ds)])

IndexOf(s, c) == IF c \in Range(s) THEN CHOOSE i \in 1..Len(s) : s[i] = c /\ \A j \in 1..(i - 1) : s[j] # c
                 ELSE 0

LastIndexOf(s, c) == IF c \in Range(s) THEN CHOOSE i \in 1..Len(s) : s[i] = c /\ \A j \in (i + 1)..Len(s) : s[j] # c
                     ELSE 0

FracLen(body) == IF DOT \in Range(body) THEN Len(body) - IndexOf(body, DOT) ELSE 0

\* A decimal literal without sign: digits with at most one ".", a digit at
\* least; the value as the fraction num / den.
parse_decimal(body, sign) ==
    IF \/ SelectSeq(body, IsDigit) = <<>>
       \/ Len(SelectSeq(body, IsDigit)) < Len(body) - 1
       \/ \E i \in 1..Len(body) : ~IsDigit(body[i]) /\ body[i] # DOT
    THEN None
    ELSE Some([num |-> sign * DigitsValue(SelectSeq(body, IsDigit)),
               den |-> Pow10(FracLen(body))])

\* str::parse::<f64> on a text of digits, "." and "-", or None when the
\* text is no decimal literal.
parse_f64(text) ==
    IF text # <<>> /\ text[1] = "-" THEN parse_decimal(Tail(text), -1)
    ELSE parse_decimal(text, 1)

GeoClass(c) == IsDigit(c) \/ c \in {DOT, "-"}

IsSpace(c) == c = " "

\* GEO_REGEX from position pos of s, after "_geoPoint(": at is the part of
\* the pattern being matched, lat and lng the texts captured so far.
\*   \s* ([[:digit:].\-]+) \s* , \s* ([[:digit:].\-]+) \s* \)
RECURSIVE GeoScan(_, _, _, _, _)
GeoScan(s, pos, at, lat, lng) ==
    IF pos > Len(s) THEN None
    ELSE IF IsSpace(s[pos]) /\ at \in {"space1", "space2", "space3", "space4"}
         THEN GeoScan(s, pos + 1, at, lat, lng)
    ELSE IF IsSpace(s[pos]) /\ at \in {"lat", "lng"}
         THEN GeoScan(s, pos + 1, IF at = "lat" THEN "space2" ELSE "space4", lat, lng)
    ELSE IF GeoClass(s[pos]) /\ at \in {"space1", "lat"}
         THEN GeoScan(s, pos + 1, "lat", Append(lat, s[pos]), lng)
    ELSE IF GeoClass(s[pos]) /\ at \in {"space3", "lng"}
         THEN GeoScan(s, pos + 1, "lng", lat, Append(lng, s[pos]))
    ELSE IF s[pos] = "," /\ at \in {"lat", "space2"}
         THEN GeoScan(s, pos + 1, "space3", lat, lng)
    ELSE IF s[pos] = ")" /\ at \in {"lng", "space4"}
         THEN Some(<<lat, lng>>)
    ELSE None

OrElse(opt, alt) == IF opt.some THEN opt ELSE alt

\* GEO_REGEX.captures(sort) from position i on: the leftmost match.
RECURSIVE captures_from(_, _)
captures_from(sort, i) ==
    IF i > Len(sort) THEN None
    ELSE OrElse(IF sort[i] = "_geoPoint(" THEN GeoScan(sort, i + 1, "space1", <<>>, <<>>)
                ELSE None,
                captures_from(sort, i + 1))

GEO_REGEX_captures(sort) == captures_from(sort, 1)

RECURSIVE find_map_last(_)
find_map_last(sorts) ==
    IF sorts = <<>> THEN None
    ELSE OrElse(find_map_last(Tail(sorts)), GEO_REGEX_captures(Head(sorts)))

\* sorts.iter().find_map(|sort| GEO_REGEX.captures(sort))
RECURSIVE find_map_captures(_)
find_map_captures(sorts) ==
    IF sorts = <<>> THEN None
    ELSE OrElse(GEO_REGEX_captures(Head(sorts)), find_map_captures(Tail(sorts)))

Abs(x) == IF x < 0 THEN -x ELSE x

\* The external distance between two points, rounded to the nearest
\* integer: the sum of the differences of the coordinates stands for the
\* great-circle distance (0 exactly when the points coincide).
distance_rounded(base, lat, lng) ==
    (2 * (Abs(base[1].num - lat * base[1].den) * base[2].den
          + Abs(base[2].num - lng * base[2].den) * base[1].den)
     + base[1].den * base[2].den) \div (2 * base[1].den * base[2].den)

MapGet(map, key) == IF key \in DOMAIN map THEN Some(map[key]) ELSE None

MapInsert(map, key, value) ==
    [k \in DOMAIN map \cup {key} |-> IF k = key THEN value ELSE map[k]]

\* serde_json's value[key]: the member of an object, Null otherwise.
JIndex(value, key) ==
    IF value.t = "obj" /\ key \in DOMAIN value.v THEN value.v[key] ELSE JNull

as_f64(value) == IF value.t = "num" THEN Some(value.v) ELSE None

GEO == <<"_geo">>

GEO_DISTANCE == <<"_geoDistance">>

LAT == <<"lat">>

LNG == <<"lng">>

\* Lines 264-268: the distance from base to the point of the document.
insert_distance(base, lat, lng, document) ==
    IF lat.some /\ lng.some
    THEN MapInsert(document, GEO_DISTANCE, JNum(distance_rounded(base, lat.val, lng.val)))
    ELSE document

\* Lines 260-268: the two parsed numbers are unwrapped, a panic when one is
\* no number.
insert_from_base(lat0, lng0, geo_point, document) ==
    IF ~lat0.some \/ ~lng0.some THEN [panic |-> TRUE, doc |-> document]
    ELSE [panic |-> FALSE,
          doc |-> insert_distance(<<lat0.val, lng0.val>>, as_f64(JIndex(geo_point, LAT)),
                                  as_f64(JIndex(geo_point, LNG)), document)]

insert_from_capture(capture_group, document) ==
    IF ~capture_group.some THEN [panic |-> FALSE, doc |-> document]
    ELSE insert_from_base(parse_f64(capture_group.val[1]), parse_f64(capture_group.val[2]),
                          unwrap_or(MapGet(document, GEO), JNull), document)

\* The document after insert_geo_distance, or a panic.
insert_geo_distance(sorts, document) ==
    insert_from_capture(find_map_captures(sorts), document)

\* The member of a sort token: a geo point when it is a geo directive whose
\* two numbers parse, an error for any other text holding the reserved
\* "_geoPoint(", "_geo" or "_geoDistance", else a field.
AscDesc_member(member, dir, point) ==
    IF /\ member[1] = "_geoPoint(" /\ member[Len(member)] = ")"
       /\ Len(point) = 2 /\ point[1].some /\ point[2].some
    THEN Ok([member |-> "Geo", dir |-> dir, point |-> <<point[1].val, point[2].val>>])
    ELSE IF "_geoPoint(" \in Range(member) \/ member \in {GEO, GEO_DISTANCE}
    THEN Err([kind |-> "ReservedKeyword", value |-> member])
    ELSE Ok([member |-> "Field", dir |-> dir, field |-> member])

ParsedPoint(cap) == IF cap.some THEN [k \in 1..2 |-> parse_f64(cap.val[k])] ELSE <<>>

\* The external parser of one sort token, AscDesc::from_str: a member and
\* a direction after the last colon.
AscDesc_from_str(s) ==
    IF Len(s) < 3 \/ s[Len(s) - 1] # ":" \/ s[Len(s)] \notin {"asc", "desc"}
    THEN Err([kind |-> "InvalidSyntax", value |-> s])
    ELSE AscDesc_member(SubSeq(s, 1, Len(s) - 2), s[Len(s)],
                        ParsedPoint(GEO_REGEX_captures(SubSeq(s, 1, Len(s) - 2))))

FirstErr(parsed) ==
    parsed[CHOOSE k \in 1..Len(parsed) : ~parsed[k].ok /\ \A j \in 1..(k - 1) : parsed[j].ok]

collect_lax(parsed) ==
    Ok([k \in 1..Len(SelectSeq(parsed, LAMBDA r : r.ok)) |->
            SelectSeq(parsed, LAMBDA r : r.ok)[k].val])

\* Iterator::collect into Result<Vec<_>, _>: every value, or the first error.
collect(parsed) ==
    IF \A k \in 1..Len(parsed) : parsed[k].ok
    THEN Ok([k \in 1..Len(parsed) |-> parsed[k].val])
    ELSE Err([kind |-> "SortError", cause |-> FirstErr(parsed).err])

\* sort.iter().map(|s| AscDesc::from_str(s)).collect()
sort_criteria(sort) == collect([k \in 1..Len(sort) |-> AscDesc_from_str(sort[k])])

(***************************************************************************)
(* The field catalog (FieldsIdsMap), the displayed set and the attribute   *)
(* resolution of perform_search, lines 125-158.                            *)
(***************************************************************************)
STAR == <<"*">>

\* FieldsIdsMap::id and ::name: the catalog is the sequence of the names,
\* the id of a name its position less one.
fields_ids_map_id(fields, attr) ==
    IF attr \in Range(fields) THEN Some(IndexOf(fields, attr) - 1) ELSE None

fields_ids_map_name(fields, fid) == fields[fid + 1]

AllIds(fields) == {k - 1 : k \in 1..Len(fields)}

displayed_ids_of(index) ==
    IF index.displayed.some THEN index.displayed.val ELSE AllIds(index.fields)

\* The closure fids of perform_search.
fids(attrs, fields, displayed_ids) ==
    IF STAR \in attrs THEN displayed_ids
    ELSE {fields_ids_map_id(fields, a).val : a \in {b \in attrs : fields_ids_map_id(fields, b).some}}

to_retrieve_ids_unfiltered(attributes_to_retrieve, fields, displayed_ids) ==
    IF attributes_to_retrieve.some
    THEN fids(attributes_to_retrieve.val, fields, displayed_ids)
    ELSE displayed_ids

to_retrieve_ids_of(attributes_to_retrieve, fields, displayed_ids) ==
    (IF attributes_to_retrieve.some
     THEN fids(attributes_to_retrieve.val, fields, displayed_ids)
     ELSE displayed_ids) \cap displayed_ids

(***************************************************************************)
(* The format-option plan, compute_formatted_options and its three steps.  *)
(***************************************************************************)
FormatOptions(highlight, crop) == [highlight |-> highlight, crop |-> crop]

PlanInsertAll(formatted_options, ids, format) ==
    [k \in DOMAIN formatted_options \cup ids |->
        IF k \in ids THEN format ELSE formatted_options[k]]

EmptyPlan == [k \in {} |-> FormatOptions(FALSE, None)]

\* add_highlight_to_formatted_options.  The loop runs over a HashSet in an
\* order the program does not fix; every insert writes the same value and
\* "*" inserts every displayed id, so every order gives this map.
add_highlight_to_formatted_options(formatted_options, attr_to_highlight, fields, displayed_ids) ==
    PlanInsertAll(formatted_options,
                  IF STAR \in attr_to_highlight THEN displayed_ids
                  ELSE {id \in displayed_ids :
                          \E a \in attr_to_highlight : fields_ids_map_id(fields, a) = Some(id)},
                  FormatOptions(TRUE, None))

\* str::parse::<usize>: an optional "+", then digits only, at least one,
\* and a value the type holds.
parse_usize(text) ==
    LET body == IF text # <<>> /\ text[1] = "+" THEN Tail(text) ELSE text
    IN  IF body = <<>> \/ (\E i \in 1..Len(body) : ~IsDigit(body[i])) THEN None
        ELSE IF DigitsValue(body) > MaxUsize THEN None
        ELSE Some(DigitsValue(body))

split_crop_attr_first_colon(attr, crop_length) ==
    LET c == IndexOf(attr, ":")
    IN  IF c = 0 THEN [name |-> attr, len |-> crop_length]
        ELSE [name |-> SubSeq(attr, 1, c - 1),
              len |-> unwrap_or(parse_usize(SubSeq(attr, c + 1, Len(attr))), crop_length)]

\* attr.rsplitn(2, ':'): the name and the length of one crop attribute.
split_crop_attr(attr, crop_length) ==
    LET c == LastIndexOf(attr, ":")
    IN  IF c = 0 THEN [name |-> attr, len |-> crop_length]
        ELSE [name |-> SubSeq(attr, 1, c - 1),
              len |-> unwrap_or(parse_usize(SubSeq(attr, c + 1, Len(attr))), crop_length)]

\* entry(id).and_modify(|f| f.crop = Some(attr_len)).or_insert(..) over ids
crop_entries(formatted_options, ids, attr_len) ==
    [k \in DOMAIN formatted_options \cup ids |->
        IF k \notin ids THEN formatted_options[k]
        ELSE IF k \in DOMAIN formatted_options
             THEN [formatted_options[k] EXCEPT !.crop = Some(attr_len)]
        ELSE FormatOptions(FALSE, Some(attr_len))]

\* One turn of the loop of add_crop_to_formatted_options.
add_crop_attr(formatted_options, attr, crop_length, fields, displayed_ids) ==
    LET split == split_crop_attr(attr, crop_length)
        id == fields_ids_map_id(fields, split.name)
        starred == IF split.name = STAR
                   THEN crop_entries(formatted_options, displayed_ids, split.len)
                   ELSE formatted_options
    IN  IF id.some /\ id.val \in displayed_ids
        THEN crop_entries(starred, {id.val}, split.len)
        ELSE starred

RECURSIVE add_crop_to_formatted_options(_, _, _, _, _)
add_crop_to_formatted_options(formatted_options, attr_to_crop, crop_length, fields, displayed_ids) ==
    IF attr_to_crop = <<>> THEN formatted_options
    ELSE add_crop_to_formatted_options(
            add_crop_attr(formatted_options, Head(attr_to_crop), crop_length,
                          fields, displayed_ids),
            Tail(attr_to_crop), crop_length, fields, displayed_ids)

add_non_formatted_overwrite(formatted_options, to_retrieve_ids) ==
    PlanInsertAll(formatted_options, to_retrieve_ids, FormatOptions(FALSE, None))

add_non_formatted_skip(formatted_options, to_retrieve_ids) == formatted_options

\* entry(id).or_insert(FormatOptions { highlight: false, crop: None })
add_non_formatted_ids_to_formatted_options(formatted_options, to_retrieve_ids) ==
    [k \in DOMAIN formatted_options \cup to_retrieve_ids |->
        IF k \in DOMAIN formatted_options THEN formatted_options[k]
        ELSE FormatOptions(FALSE, None)]

compute_formatted_options(attr_to_highlight, attr_to_crop, query_crop_length, to_retrieve_ids, fields, displayed_ids) ==
    LET highlighted == add_highlight_to_formatted_options(
                           EmptyPlan, attr_to_highlight, fields, displayed_ids)
        cropped == add_crop_to_formatted_options(
                       highlighted, attr_to_crop, query_crop_length, fields, displayed_ids)
    IN  IF DOMAIN cropped # {}
        THEN add_non_formatted_ids_to_formatted_options(cropped, to_retrieve_ids)
        ELSE cropped

(***************************************************************************)
(* External path utilities: milli::is_faceted_by and the crate             *)
(* permissive_json_pointer (select_values, map_leaf_values).               *)
(***************************************************************************)
\* field is facet itself or a dotted descendant of it.
is_faceted_by(field, facet) ==
    /\ Len(facet) <= Len(field)
    /\ SubSeq(field, 1, Len(facet)) = facet
    /\ (Len(field) = Len(facet) \/ field[Len(facet) + 1] = DOT)

RECURSIVE SetToSeq(_)
SetToSeq(S) ==
    IF S = {} THEN <<>>
    ELSE LET x == CHOOSE y \in S : TRUE IN <<x>> \o SetToSeq(S \ {x})

JoinKey(base_key, key) == IF base_key = <<>> THEN key ELSE base_key \o <<DOT>> \o key

SubSelectors(selectors, key) ==
    {SubSeq(s, Len(key) + 2, Len(s)) :
        s \in {x \in selectors : is_faceted_by(x, key) /\ Len(x) > Len(key)}}

RECURSIVE select_in_object(_, _)
RECURSIVE select_in_array(_, _)
\* The members of an array that hold something selected, in order.
select_in_array(array, selectors) ==
    IF array = <<>> THEN <<>>
    ELSE LET head == Head(array)
             rest == select_in_array(Tail(array), selectors)
             picked == IF head.t = "obj" THEN JObj(select_in_object(head.v, selectors))
                       ELSE IF head.t = "arr" THEN JArr(select_in_array(head.v, selectors))
                       ELSE JNull
         IN  IF (head.t = "obj" /\ DOMAIN picked.v # {}) \/ (head.t = "arr" /\ picked.v # <<>>)
             THEN <<picked>> \o rest
             ELSE rest

\* The part of one member of an object that the sub-selectors keep.
SelectedPart(value, sub) ==
    IF value.t = "obj" THEN JObj(select_in_object(value.v, sub))
    ELSE IF value.t = "arr" THEN JArr(select_in_array(value.v, sub))
    ELSE JNull

KeepsPart(value, sub) ==
    /\ sub # {}
    /\ \/ value.t = "obj" /\ DOMAIN SelectedPart(value, sub).v # {}
       \/ value.t = "arr" /\ SelectedPart(value, sub).v # <<>>

select_in_object(map, selectors) ==
    LET kept == {k \in DOMAIN map :
                    k \in selectors \/ KeepsPart(map[k], SubSelectors(selectors, k))}
    IN  [k \in kept |-> IF k \in selectors THEN map[k]
                        ELSE SelectedPart(map[k], SubSelectors(selectors, k))]

\* permissive_json_pointer::select_values
select_values(document, selectors) == select_in_object(document, selectors)

\* Whether map_leaf_values descends into the member at path key.
should_continue(selectors, key) ==
    \E selector \in selectors : is_faceted_by(selector, key) \/ is_faceted_by(key, selector)

(***************************************************************************)
(* The external matcher (MatcherBuilder / Matcher) on a text: a sequence   *)
(* of words.                                                               *)
(***************************************************************************)
\* The defaults of highlight_pre_tag, highlight_post_tag and crop_marker (the
\* one-character ellipsis, written in ASCII), which every query drawn keeps.
DEFAULT_HIGHLIGHT_PRE_TAG == "<em>"

DEFAULT_HIGHLIGHT_POST_TAG == "</em>"

DEFAULT_CROP_MARKER == "..."

number_to_string(n) == <<DigitChars[n + 1]>>

\* matcher.matches(): one bound per word of the text that is a matched term.
matcher_matches(matching_words, text) ==
    LET at == {i \in 1..Len(text) : text[i] \in matching_words}
        RECURSIVE Bounds(_)
        Bounds(i) == IF i > Len(text) THEN <<>>
                     ELSE (IF i \in at THEN <<[start |-> i, length |-> 1]>> ELSE <<>>)
                          \o Bounds(i + 1)
    IN  Bounds(1)

RECURSIVE highlight_words(_, _)
highlight_words(matching_words, text) ==
    IF text = <<>> THEN <<>>
    ELSE (IF Head(text) \in matching_words
          THEN <<DEFAULT_HIGHLIGHT_PRE_TAG, Head(text), DEFAULT_HIGHLIGHT_POST_TAG>>
          ELSE <<Head(text)>>) \o highlight_words(matching_words, Tail(text))

\* matcher.format(format_options): the text itself when nothing is asked;
\* else the window of crop words from the first match, between markers
\* where it cuts the text, its matched words between the tags when
\* highlight is set.
matcher_format(matching_words, text, format_options) ==
    IF ~format_options.highlight /\ ~format_options.crop.some THEN text
    ELSE LET at == {i \in 1..Len(text) : text[i] \in matching_words}
             first == IF at = {} THEN 1 ELSE CHOOSE i \in at : \A j \in at : i <= j
             last == IF format_options.crop.some
                     THEN Min(Len(text), first + format_options.crop.val - 1)
                     ELSE Len(text)
             from == IF format_options.crop.some THEN first ELSE 1
             window == SubSeq(text, from, last)
             body == IF format_options.highlight
                     THEN highlight_words(matching_words, window) ELSE window
         IN  (IF from > 1 THEN <<DEFAULT_CROP_MARKER>> ELSE <<>>) \o body
             \o (IF last < Len(text) THEN <<DEFAULT_CROP_MARKER>> ELSE <<>>)

\* FormatOptions::merge: highlight of either, the crop applied last.
merge(acc, option) ==
    FormatOptions(acc.highlight \/ option.highlight,
                  IF option.crop.some THEN option.crop ELSE acc.crop)

(***************************************************************************)
(* Document decoding and formatting: make_document, format_value and       *)
(* format_fields.                                                          *)
(***************************************************************************)
RECURSIVE Flatten(_)
Flatten(seqs) == IF seqs = <<>> THEN <<>> ELSE Head(seqs) \o Flatten(Tail(seqs))

NamesOf(fields, ids) == {fields_ids_map_name(fields, fid) : fid \in ids}

\* make_document: the stored record as a document, cut to the displayed
\* fields; a stored value that is no JSON fails the call.
make_document(displayed_attributes, fields, obkv) ==
    IF \E f \in DOMAIN obkv : obkv[f].t = "corrupt"
    THEN Err([kind |-> "SerdeJson"])
    ELSE Ok(select_values([k \in NamesOf(fields, DOMAIN obkv) |->
                               obkv[fields_ids_map_id(fields, k).val]],
                          NamesOf(fields, displayed_attributes)))

leaf_infos_if_formatted(matching_words, text, format_options, compute_matches) ==
    IF compute_matches /\ format_options.some
    THEN matcher_matches(matching_words, text) ELSE <<>>

\* The match bounds format_value records for one string or number leaf.
leaf_infos(matching_words, text, format_options, compute_matches) ==
    IF compute_matches THEN matcher_matches(matching_words, text) ELSE <<>>

\* The value format_value gives one string or number leaf.
leaf_value(matching_words, text, format_options, original) ==
    IF format_options.some
    THEN JStr(matcher_format(matching_words, text, format_options.val))
    ELSE original

nested_options_keep_crop(format_options) == format_options

\* The options format_value hands down into an array or an object.
nested_options(format_options) ==
    IF format_options.some
    THEN Some(FormatOptions(format_options.val.highlight, None))
    ELSE None

\* format_value: the formatted value and the match bounds appended to infos.
RECURSIVE format_value(_, _, _, _)
format_value(value, matching_words, format_options, compute_matches) ==
    IF value.t = "str"
    THEN [value |-> leaf_value(matching_words, value.v, format_options, value),
          infos |-> leaf_infos(matching_words, value.v, format_options, compute_matches)]
    ELSE IF value.t = "num"
    THEN [value |-> leaf_value(matching_words, number_to_string(value.v), format_options, value),
          infos |-> leaf_infos(matching_words, number_to_string(value.v),
                               format_options, compute_matches)]
    ELSE IF value.t = "arr"
    THEN LET items == [i \in 1..Len(value.v) |->
                          format_value(value.v[i], matching_words,
                                       nested_options(format_options), compute_matches)]
         IN  [value |-> JArr([i \in 1..Len(value.v) |-> items[i].value]),
              infos |-> Flatten([i \in 1..Len(value.v) |-> items[i].infos])]
    ELSE IF value.t = "obj"
    THEN LET keys == SetToSeq(DOMAIN value.v)
             items == [k \in DOMAIN value.v |->
                          format_value(value.v[k], matching_words,
                                       nested_options(format_options), compute_matches)]
         IN  [value |-> JObj([k \in DOMAIN value.v |-> items[k].value]),
              infos |-> Flatten([i \in 1..Len(keys) |-> items[keys[i]].infos])]
    ELSE [value |-> value, infos |-> <<>>]

RelatedIds(formatted_options, fields, key) ==
    {fid \in DOMAIN formatted_options :
        \/ is_faceted_by(fields_ids_map_name(fields, fid), key)
        \/ is_faceted_by(key, fields_ids_map_name(fields, fid))}

RECURSIVE reduce_merge(_, _, _)
reduce_merge(formatted_options, ids, acc) ==
    IF ids = {} THEN acc
    ELSE LET fid == CHOOSE x \in ids : \A y \in ids : x <= y
         IN  reduce_merge(formatted_options, ids \ {fid}, merge(acc, formatted_options[fid]))

\* The options of one leaf: the plan entries related to its key, merged in
\* the order of the ids; None when no entry is related.
leaf_format(formatted_options, fields, key) ==
    LET ids == RelatedIds(formatted_options, fields, key)
        first == CHOOSE x \in ids : \A y \in ids : x <= y
    IN  IF ids = {} THEN None
        ELSE Some(reduce_merge(formatted_options, ids \ {first}, formatted_options[first]))

\* The leaves map_leaf_values visits, in order, each with its key.
RECURSIVE leaves_in_object(_, _, _)
RECURSIVE leaves_in_array(_, _, _)
leaves_in_value(value, selectors, key) ==
    IF value.t = "obj" THEN leaves_in_object(value.v, selectors, key)
    ELSE IF value.t = "arr" THEN leaves_in_array(value.v, selectors, key)
    ELSE <<[key |-> key, value |-> value]>>

leaves_in_array(values, selectors, base_key) ==
    Flatten([i \in 1..Len(values) |-> leaves_in_value(values[i], selectors, base_key)])

leaves_in_object(map, selectors, base_key) ==
    LET keys == SetToSeq(DOMAIN map)
    IN  Flatten([i \in 1..Len(keys) |->
                    IF should_continue(selectors, JoinKey(base_key, keys[i]))
                    THEN leaves_in_value(map[keys[i]], selectors, JoinKey(base_key, keys[i]))
                    ELSE <<>>])

\* The document after map_leaf_values ran the closure of format_fields.
RECURSIVE mapped_object(_, _, _, _)
RECURSIVE mapped_value(_, _, _, _)
mapped_value(value, selectors, key, ctx) ==
    IF value.t = "obj" THEN JObj(mapped_object(value.v, selectors, key, ctx))
    ELSE IF value.t = "arr"
    THEN JArr([i \in 1..Len(value.v) |-> mapped_value(value.v[i], selectors, key, ctx)])
    ELSE format_value(value, ctx.matching_words,
                      leaf_format(ctx.formatted_options, ctx.fields, key),
                      ctx.compute_matches).value

mapped_object(map, selectors, base_key, ctx) ==
    [k \in DOMAIN map |->
        IF should_continue(selectors, JoinKey(base_key, k))
        THEN mapped_value(map[k], selectors, JoinKey(base_key, k), ctx)
        ELSE map[k]]

\* matches.insert(key, infos) for every visited leaf with some bound.
RECURSIVE insert_matches(_, _, _)
insert_matches(matches, visits, ctx) ==
    IF visits = <<>> THEN matches
    ELSE LET infos == format_value(Head(visits).value, ctx.matching_words,
                                   leaf_format(ctx.formatted_options, ctx.fields,
                                               Head(visits).key),
                                   ctx.compute_matches).infos
         IN  insert_matches(IF infos # <<>> THEN MapInsert(matches, Head(visits).key, infos)
                            ELSE matches,
                            Tail(visits), ctx)

EmptyMatches == [k \in {} |-> <<>>]

format_fields(document, fields, matching_words, formatted_options, compute_matches, displayable_ids) ==
    LET ctx == [fields |-> fields, matching_words |-> matching_words,
                formatted_options |-> formatted_options,
                compute_matches |-> compute_matches]
        displayable_names == NamesOf(fields, displayable_ids)
        mapped == mapped_object(document, displayable_names, <<>>, ctx)
        visits == leaves_in_object(document, displayable_names, <<>>)
    IN  [matches_position |->
            IF compute_matches THEN Some(insert_matches(EmptyMatches, visits, ctx)) ELSE None,
         formatted |-> select_values(mapped, NamesOf(fields, DOMAIN formatted_options))]

(***************************************************************************)
(* The external engine and snapshot reader.                                *)
(***************************************************************************)
DocIds(index) == 1..Len(index.docs)

RECURSIVE Ascending(_)
Ascending(S) ==
    IF S = {} THEN <<>>
    ELSE LET x == CHOOSE y \in S : \A z \in S : y <= z IN <<x>> \o Ascending(S \ {x})

WordsOf(q) == IF q.some THEN Range(q.val) ELSE {}

\* search.execute(): for every candidate set the engine may find, the page
\* [offset, offset + limit) of its ranking, the matched terms of the query
\* and the candidate set.
search_execute(index, search) ==
    {[documents_ids |-> SubSeq(Ascending(candidates), search.offset + 1,
                               Min(Cardinality(candidates), search.offset + search.limit)),
      matching_words |-> WordsOf(search.query),
      candidates |-> candidates] : candidates \in SUBSET DocIds(index)}

\* self.documents(&rtxn, documents_ids): the stored record of every id, in
\* the order of the ids.
index_documents(index, documents_ids) ==
    [k \in 1..Len(documents_ids) |->
        [id |-> documents_ids[k], obkv |-> index.docs[documents_ids[k]]]]

\* The request perform_search makes for the facet distribution.
facets_request(fields, candidates) ==
    [facets |-> IF \A k \in 1..Len(fields) : fields[k] # STAR THEN Some(fields) ELSE None,
     candidates |-> candidates]

(***************************************************************************)
(* The state of one call of Index::perform_search.                         *)
(***************************************************************************)
VARIABLES
    query,      \* the SearchQuery of the call
    index,      \* the index snapshot: field catalog, displayed set, records
    pc,         \* the position of the call
    calls,      \* the calls made to the external collaborators, in order
    search,     \* the search builder: query, offset, limit, filter, sort
    engine,     \* the milli::SearchResult of search.execute()
    locals,     \* displayed_ids, to_retrieve_ids, formatted_options, documents_iter
    documents,  \* the Vec<SearchHit> under construction
    result      \* the value perform_search returns

vars == <<query, index, pc, calls, search, engine, locals, documents, result>>

Call(fn, arg) == [fn |-> fn, arg |-> arg]

NoEngine == [documents_ids |-> <<>>, matching_words |-> {}, candidates |-> {}]

NoLocals ==
    [displayed_ids |-> {}, to_retrieve_ids |-> {}, formatted_options |-> EmptyPlan,
     documents_iter |-> <<>>]

NoSearch == [query |-> None, offset |-> 0, limit |-> 0, filter |-> None, sort_criteria |-> None]

\* An early return Err(e): the locals of the call, its hits among them, are
\* dropped.
Fail(e) ==
    /\ pc' = "Failed"
    /\ result' = Err(e)
    /\ documents' = <<>>

\* Lines 84-99: the read transaction, the query text and the pagination.
Begin ==
    /\ pc = "Received"
    /\ calls' = Append(calls, Call("read_txn", <<>>))
    /\ \/ /\ Fail([kind |-> "Heed"])
          /\ UNCHANGED <<query, index, search, engine, locals>>
       \/ /\ search' = [NoSearch EXCEPT
                          !.query = query.q,
                          !.offset = effective_offset(query.offset),
                          !.limit = effective_limit(query.limit, effective_offset(query.offset))]
          /\ pc' = "Bounded"
          /\ UNCHANGED <<query, index, engine, locals, documents, result>>

\* Lines 101-105: the filter.
CompileFilter ==
    /\ pc = "Bounded"
    /\ \/ /\ ~query.filter.some
          /\ pc' = "Filtered"
          /\ UNCHANGED <<query, index, calls, search, engine, locals, documents, result>>
       \/ /\ query.filter.some
          /\ ~parse_filter(query.filter.val).ok
          /\ calls' = calls \o parse_filter_calls(query.filter.val)
          /\ Fail(parse_filter(query.filter.val).err)
          /\ UNCHANGED <<query, index, search, engine, locals>>
       \/ /\ query.filter.some
          /\ parse_filter(query.filter.val).ok
          /\ calls' = calls \o parse_filter_calls(query.filter.val)
          /\ search' = IF parse_filter(query.filter.val).val.some
                       THEN [search EXCEPT !.filter = parse_filter(query.filter.val).val]
                       ELSE search
          /\ pc' = "Filtered"
          /\ UNCHANGED <<query, index, engine, locals, documents, result>>

\* Lines 107-116: the sort criteria.
ParseSort ==
    /\ pc = "Filtered"
    /\ \/ /\ ~query.sort.some
          /\ pc' = "Sorted"
          /\ UNCHANGED <<query, index, calls, search, engine, locals, documents, result>>
       \/ /\ query.sort.some
          /\ ~sort_criteria(query.sort.val).ok
          /\ calls' = Append(calls, Call("AscDesc::from_str", query.sort.val))
          /\ Fail(sort_criteria(query.sort.val).err)
          /\ UNCHANGED <<query, index, search, engine, locals>>
       \/ /\ query.sort.some
          /\ sort_criteria(query.sort.val).ok
          /\ calls' = Append(calls, Call("AscDesc::from_str", query.sort.val))
          /\ search' = [search EXCEPT !.sort_criteria = Some(sort_criteria(query.sort.val).val)]
          /\ pc' = "Sorted"
          /\ UNCHANGED <<query, index, engine, locals, documents, result>>

\* Lines 118-123: the engine.
Execute ==
    /\ pc = "Sorted"
    /\ calls' = Append(calls, Call("search.execute", search))
    /\ \/ /\ Fail([kind |-> "Milli"])
          /\ UNCHANGED <<query, index, search, engine, locals>>
       \/ /\ engine' \in search_execute(index, search)
          /\ pc' = "Executed"
          /\ UNCHANGED <<query, index, search, locals, documents, result>>

\* Lines 125-190: the displayed set, the retrieve set, the format-option
\* plan and the stored records of the page.
Plan ==
    /\ pc = "Executed"
    /\ \/ /\ calls' = Append(calls, Call("displayed_fields_ids", <<>>))
          /\ Fail([kind |-> "Heed"])
          /\ UNCHANGED <<query, index, search, engine, locals>>
       \/ /\ calls' = calls \o <<Call("displayed_fields_ids", <<>>),
                                 Call("documents", engine.documents_ids)>>
          /\ Fail([kind |-> "Milli"])
          /\ UNCHANGED <<query, index, search, engine, locals>>
       \/ /\ calls' = calls \o <<Call("displayed_fields_ids", <<>>),
                                 Call("documents", engine.documents_ids)>>
          /\ LET displayed_ids == displayed_ids_of(index)
                 to_retrieve_ids == to_retrieve_ids_of(query.attributes_to_retrieve,
                                                       index.fields, displayed_ids)
             IN  locals' =
                    [displayed_ids |-> displayed_ids,
                     to_retrieve_ids |-> to_retrieve_ids,
                     formatted_options |->
                        compute_formatted_options(
                            unwrap_or(query.attributes_to_highlight, {}),
                            unwrap_or(query.attributes_to_crop, <<>>),
                            query.crop_length, to_retrieve_ids, index.fields, displayed_ids),
                     documents_iter |-> index_documents(index, engine.documents_ids)]
          /\ pc' = "Projecting"
          /\ UNCHANGED <<query, index, search, engine, documents, result>>

\* The SearchHit of one stored record, lines 193-221.
search_hit(displayed_document, q, fields, loc, matching_words) ==
    LET selected == select_values(displayed_document, NamesOf(fields, loc.to_retrieve_ids))
        formatted == format_fields(displayed_document, fields, matching_words,
                                   loc.formatted_options, q.show_matches_position,
                                   loc.displayed_ids)
        geo == IF q.sort.some THEN insert_geo_distance(q.sort.val, selected)
               ELSE [panic |-> FALSE, doc |-> selected]
    IN  [panic |-> geo.panic,
         hit |-> [document |-> geo.doc,
                  formatted |-> formatted.formatted,
                  matches_position |-> formatted.matches_position]]

\* One turn of the loop of lines 192-223.
ProjectHit ==
    /\ pc = "Projecting"
    /\ Len(documents) < Len(locals.documents_iter)
    /\ LET obkv == locals.documents_iter[Len(documents) + 1].obkv
           displayed_document == make_document(locals.displayed_ids, index.fields, obkv)
       IN  \/ /\ ~displayed_document.ok
              /\ Fail(displayed_document.err)
              /\ UNCHANGED <<query, index, calls, search, engine, locals>>
           \/ /\ displayed_document.ok
              /\ LET made == search_hit(displayed_document.val, query, index.fields,
                                        locals, engine.matching_words)
                 IN  IF made.panic
                     THEN /\ pc' = "Panicked"
                          /\ documents' = <<>>
                     ELSE /\ pc' = pc
                          /\ documents' = Append(documents, made.hit)
              /\ UNCHANGED <<query, index, calls, search, engine, locals, result>>

search_result_page_total(q, hits, candidates, facet_distribution) ==
    [hits |-> hits,
     estimated_total_hits |-> Len(hits),
     query |-> unwrap_or(q.q, <<>>),
     limit |-> q.limit,
     offset |-> unwrap_or(q.offset, 0),
     facet_distribution |-> facet_distribution]

search_result_clamped(q, hits, candidates, facet_distribution) ==
    [hits |-> hits,
     estimated_total_hits |-> Cardinality(candidates),
     query |-> unwrap_or(q.q, <<>>),
     limit |-> effective_limit(q.limit, effective_offset(q.offset)),
     offset |-> effective_offset(q.offset),
     facet_distribution |-> facet_distribution]

\* The SearchResult of lines 240-249 (the elapsed time left out).
search_result(q, hits, candidates, facet_distribution) ==
    [hits |-> hits,
     estimated_total_hits |-> Cardinality(candidates),
     query |-> unwrap_or(q.q, <<>>),
     limit |-> q.limit,
     offset |-> unwrap_or(q.offset, 0),
     facet_distribution |-> facet_distribution]

\* Lines 225-250: the total, the facet distribution and the result.
Finish ==
    /\ pc = "Projecting"
    /\ Len(documents) = Len(locals.documents_iter)
    /\ \/ /\ ~query.facets.some
          /\ result' = Ok(search_result(query, documents, engine.candidates, None))
          /\ pc' = "Done"
          /\ UNCHANGED <<query, index, calls, search, engine, locals, documents>>
       \/ /\ query.facets.some
          /\ calls' = Append(calls, Call("facet_distribution.execute",
                                         facets_request(query.facets.val, engine.candidates)))
          /\ Fail([kind |-> "Milli"])
          /\ UNCHANGED <<query, index, search, engine, locals>>
       \/ /\ query.facets.some
          /\ calls' = Append(calls, Call("facet_distribution.execute",
                                         facets_request(query.facets.val, engine.candidates)))
          /\ result' = Ok(search_result(query, documents, engine.candidates,
                             Some(facets_request(query.facets.val, engine.candidates))))
          /\ pc' = "Done"
          /\ UNCHANGED <<query, index, search, engine, locals, documents>>

Next == Begin \/ CompileFilter \/ ParseSort \/ Execute \/ Plan \/ ProjectHit \/ Finish

(***************************************************************************)
(* The calls the model draws: the indexes and the queries.                 *)
(***************************************************************************)
F_ID == <<"id">>

F_TITLE == <<"title">>

F_BODY == <<"body">>

F_DOGGO == <<"doggo">>

F_DOGGO_NAME == <<"doggo", ".", "name">>

F_SECRET == <<"secret">>

F_NOPE == <<"nope">>

\* The catalog: ids 0 to 6.
Fields == <<F_ID, F_TITLE, F_BODY, F_DOGGO, F_DOGGO_NAME, F_SECRET, GEO>>

Fid(name) == fields_ids_map_id(Fields, name).val

DocShoe(k) ==
    (Fid(F_ID) :> JNum(k))
    @@ (Fid(F_TITLE) :> JStr(<<"red", "shoe">>))
    @@ (Fid(F_BODY) :> JStr(<<"a", "big", "shoe", "box">>))
    @@ (Fid(F_DOGGO) :> JObj((<<"name">> :> JStr(<<"bork", "shoe">>)) @@ (<<"age">> :> JNum(3))))
    @@ (Fid(F_SECRET) :> JStr(<<"shoe", "key">>))
    @@ (Fid(GEO) :> JObj((LAT :> JNum(1)) @@ (LNG :> JNum(2))))

DocHat(k) ==
    (Fid(F_ID) :> JNum(k))
    @@ (Fid(F_TITLE) :> JStr(<<"blue", "hat">>))
    @@ (Fid(F_BODY) :> JNum(7))
    @@ (Fid(F_DOGGO) :> JArr(<<JStr(<<"shoe">>), JObj(<<"name">> :> JStr(<<"rex">>)), JBool(TRUE)>>))
    @@ (Fid(F_SECRET) :> JNull)
    @@ (Fid(GEO) :> JStr(<<"nowhere">>))

DocFar(k) ==
    (Fid(F_ID) :> JNum(k))
    @@ (Fid(F_TITLE) :> JStr(<<"shoe">>))
    @@ (Fid(GEO) :> JObj((LAT :> JNum(3)) @@ (LNG :> JStr(<<"x">>))))

DocCorrupt(k) ==
    (Fid(F_ID) :> JNum(k))
    @@ (Fid(F_TITLE) :> [t |-> "corrupt", v |-> <<>>])

DisplayedSets ==
    {None,
     Some({Fid(F_ID), Fid(F_TITLE), Fid(F_BODY), Fid(F_DOGGO), Fid(GEO)}),
     Some({Fid(F_BODY), Fid(F_DOGGO_NAME)})}

Index(displayed, docs) == [fields |-> Fields, displayed |-> displayed, docs |-> docs]

PagingIndex ==
    Index(None, [k \in 1..MaxDocs |-> IF k % 2 = 1 THEN DocShoe(k) ELSE DocHat(k)])

SmallIndexes == {Index(d, <<DocShoe(1)>>) : d \in DisplayedSets}

MixedIndexes == {Index(d, <<DocShoe(1), DocHat(2)>>) : d \in DisplayedSets}

GeoIndex == Index(None, <<DocShoe(1), DocHat(2), DocFar(3)>>)

FaultyIndex == Index(None, <<DocShoe(1), DocCorrupt(2), DocHat(3)>>)

BaseQuery ==
    [q |-> Some(<<"shoe">>), offset |-> None, limit |-> DEFAULT_SEARCH_LIMIT,
     attributes_to_retrieve |-> None, attributes_to_crop |-> None,
     crop_length |-> DEFAULT_CROP_LENGTH, attributes_to_highlight |-> None,
     show_matches_position |-> FALSE, filter |-> None, sort |-> None, facets |-> None]

Offsets == {None} \cup {Some(n) : n \in {0, 1, 2, HARD_RESULT_LIMIT - 1, HARD_RESULT_LIMIT,
                                         HARD_RESULT_LIMIT + 1, MaxUsize}}

Limits == {0, 1, 2, DEFAULT_SEARCH_LIMIT, HARD_RESULT_LIMIT - 1, HARD_RESULT_LIMIT,
           HARD_RESULT_LIMIT + 1, MaxUsize}

PagingInputs ==
    {[query |-> [BaseQuery EXCEPT !.offset = o, !.limit = l], index |-> PagingIndex] :
        o \in Offsets, l \in Limits}

OrGroups ==
    {JArr(<<>>), JArr(<<JStr(<<"a">>)>>), JArr(<<JStr(<<"a">>), JStr(<<"b">>)>>),
     JArr(<<JNum(1)>>), JArr(<<JStr(<<"a">>), JNum(1)>>), JArr(<<JNull, JStr(<<"a">>)>>),
     JArr(<<JArr(<<>>)>>), JArr(<<JStr(<<>>)>>)}

FilterElements ==
    {JStr(<<"c">>), JStr(<<>>), JStr(<<"!", "c">>), JNum(2), JObj(EmptyMap)} \cup OrGroups

FilterExprs ==
    {JStr(<<"c">>), JStr(<<>>), JStr(<<"!", "c">>), JNum(2), JBool(TRUE), JNull, JObj(EmptyMap)}
    \cup {JArr(a) : a \in SeqsUpTo(FilterElements, MaxFilterLen)}

FilterInputs ==
    {[query |-> [BaseQuery EXCEPT !.filter = Some(f)], index |-> Index(None, <<DocShoe(1)>>)] :
        f \in FilterExprs}

SortTokens ==
    {<<"title", ":", "asc">>,
     <<"title">>,
     <<"_geoPoint(", "1", ",", "2", ")", ":", "desc">>,
     <<"_geoPoint(", " ", "3", " ", ",", " ", "4", ".", "5", " ", ")", ":", "asc">>,
     <<"_geoPoint(", "-", "1", ",", "2", ")", ":", "asc">>,
     <<"_geoPoint(", "1", ")", ":", "asc">>,
     <<"_geoPoint(", "-", ",", "2", ")", ":", "asc">>}

SortInputs ==
    {[query |-> [BaseQuery EXCEPT !.sort = Some(s), !.attributes_to_retrieve = r],
      index |-> GeoIndex] :
        s \in SeqsUpTo(SortTokens, MaxSortLen), r \in {None, Some({F_TITLE})}}

CropAttrs ==
    {F_BODY,
     <<"body", ":", "5">>,
     <<"body", ":", "1", "2">>,
     <<"body", ":", "x">>,
     <<"body", ":">>,
     <<"body", ":", "-", "1">>,
     <<"body", ":", "+", "5">>,
     STAR,
     <<"*", ":", "3">>,
     <<"title", ":", "5", ":", "7">>,
     <<"secret", ":", "2">>,
     <<"nope", ":", "4">>,
     <<"doggo", ".", "name", ":", "1">>}

\* The crop attributes the lists of several attributes are made of.
CropListAttrs ==
    {F_BODY,
     <<"body", ":", "5">>,
     <<"body", ":", "x">>,
     STAR,
     <<"*", ":", "3">>,
     <<"title", ":", "5", ":", "7">>,
     <<"secret", ":", "2">>,
     <<"doggo", ".", "name", ":", "1">>}

CropLengths == {DEFAULT_CROP_LENGTH, 3}

PlanInputs ==
    {[query |-> [BaseQuery EXCEPT !.attributes_to_crop = Some(c), !.crop_length = n,
                                  !.attributes_to_highlight = h],
      index |-> i] :
        c \in SeqsUpTo(CropListAttrs, MaxCropAttrs), n \in CropLengths,
        h \in {None, Some({F_TITLE, F_BODY}), Some({STAR})}, i \in SmallIndexes}

HighlightSets ==
    {None, Some({}), Some({STAR}), Some({F_TITLE}), Some({F_SECRET, F_NOPE}),
     Some({F_BODY, F_DOGGO}), Some({F_DOGGO_NAME}), Some({STAR, F_SECRET})}

RetrieveSets ==
    {None, Some({}), Some({F_TITLE}), Some({F_SECRET, F_TITLE, F_NOPE}), Some({STAR}),
     Some({F_DOGGO_NAME, GEO})}

SelectionInputs ==
    {[query |-> [BaseQuery EXCEPT !.attributes_to_crop = c, !.attributes_to_highlight = h,
                                  !.attributes_to_retrieve = r],
      index |-> i] :
        c \in {None} \cup {Some(<<a>>) : a \in CropAttrs}, h \in HighlightSets,
        r \in RetrieveSets, i \in SmallIndexes}

FormatInputs ==
    {[query |-> [BaseQuery EXCEPT !.q = w, !.show_matches_position = m,
                                  !.attributes_to_highlight = h, !.attributes_to_crop = c,
                                  !.attributes_to_retrieve = r],
      index |-> i] :
        w \in {None, Some(<<"shoe">>), Some(<<"3", "bork", "7">>)}, m \in BOOLEAN,
        h \in {None, Some({F_TITLE}), Some({F_DOGGO}), Some({F_DOGGO_NAME})},
        c \in {None, Some(<<<<"body", ":", "2">>>>)}, r \in {None, Some({F_TITLE})},
        i \in MixedIndexes}

FaultInputs ==
    {[query |-> [BaseQuery EXCEPT !.facets = f, !.limit = l, !.sort = s],
      index |-> FaultyIndex] :
        f \in {None, Some(<<<<"genre">>>>), Some(<<STAR>>), Some(<<<<"genre">>, STAR>>)},
        l \in {1, DEFAULT_SEARCH_LIMIT},
        s \in {None, Some(<<<<"title", ":", "asc">>>>), Some(<<<<"title">>>>)}}

InputFamilies ==
    <<PagingInputs, FilterInputs, SortInputs, PlanInputs, SelectionInputs, FormatInputs,
      FaultInputs>>

Init ==
    /\ \E f \in 1..Len(InputFamilies) : \E input \in InputFamilies[f] :
          query = input.query /\ index = input.index
    /\ pc = "Received"
    /\ calls = <<>>
    /\ search = NoSearch
    /\ engine = NoEngine
    /\ locals = NoLocals
    /\ documents = <<>>
    /\ result = None

Spec == Init /\ [][Next]_vars

(***************************************************************************)
(* One call of format_value by itself: locals holds its arguments, engine  *)
(* the matching words of the builder, result the value it returns.         *)
(***************************************************************************)
NestedText == <<"a", "shoe", "box">>

NestedLeaves == {JStr(NestedText), JNum(7), JBool(TRUE), JNull}

\* The values nested at most depth arrays or objects deep.
RECURSIVE NestedValues(_)
NestedValues(depth) ==
    IF depth = 0 THEN NestedLeaves
    ELSE LET inner == NestedValues(depth - 1)
         IN  inner \cup {JArr(<<x, JStr(NestedText)>>) : x \in inner}
                   \cup {JObj(<<"name">> :> x) : x \in inner}

FormatValueOptions ==
    {None} \cup {Some(FormatOptions(highlight, crop)) :
                    highlight \in BOOLEAN, crop \in {None, Some(1), Some(2)}}

FormatValueInit ==
    /\ \E value \in NestedValues(MaxNesting), format_options \in FormatValueOptions,
          compute_matches \in BOOLEAN :
          locals = [value |-> value, format_options |-> format_options,
                    compute_matches |-> compute_matches]
    /\ \E matching_words \in {{"shoe"}, {"shoe", "7"}} :
          engine = [NoEngine EXCEPT !.matching_words = matching_words]
    /\ pc = "FormatValue"
    /\ query = BaseQuery
    /\ index = Index(None, <<>>)
    /\ calls = <<>>
    /\ search = NoSearch
    /\ documents = <<>>
    /\ result = None

\* Lines 471-560: the call and its return.
FormatValueCall ==
    /\ pc = "FormatValue"
    /\ result' = format_value(locals.value, engine.matching_words,
                              locals.format_options, locals.compute_matches)
    /\ pc' = "Formatted"
    /\ UNCHANGED <<query, index, calls, search, engine, locals, documents>>

FormatValueNext == FormatValueCall

FormatValueSpec == FormatValueInit /\ [][FormatValueNext]_vars

(***************************************************************************)
(* Properties of perform_search.                                           *)
(***************************************************************************)
CallsTo(fns) == {k \in 1..Len(calls) : calls[k].fn \in fns}

Least(S) == CHOOSE x \in S : \A y \in S : x <= y

Greatest(S) == CHOOSE x \in S : \A y \in S : x >= y

RequestedOffset == IF query.offset.some THEN query.offset.val ELSE 0

\* C1: the offset and the limit handed to the engine are the requested
\* ones clamped, offset to min(offset, 1000) and limit to
\* min(limit, 1000 - offset); both stay in 0..1000 and their sum is at most
\* 1000, for every requested pair.
PaginationWithinHardLimit ==
    \A k \in CallsTo({"search.execute"}) :
        /\ calls[k].arg.offset =
              (IF RequestedOffset <= HARD_RESULT_LIMIT THEN RequestedOffset
               ELSE HARD_RESULT_LIMIT)
        /\ calls[k].arg.limit =
              (IF query.limit <= HARD_RESULT_LIMIT - calls[k].arg.offset THEN query.limit
               ELSE HARD_RESULT_LIMIT - calls[k].arg.offset)
        /\ calls[k].arg.offset \in 0..HARD_RESULT_LIMIT
        /\ calls[k].arg.limit \in 0..HARD_RESULT_LIMIT
        /\ calls[k].arg.offset + calls[k].arg.limit <= HARD_RESULT_LIMIT

\* The engine was called for offset 2 and a limit above the hard limit, and
\* got the limit 998.
PaginationClamped ==
    \E k \in CallsTo({"search.execute"}) :
        /\ query.offset = Some(2)
        /\ query.limit > HARD_RESULT_LIMIT
        /\ calls[k].arg.offset = 2
        /\ calls[k].arg.limit = HARD_RESULT_LIMIT - 2

PlanDone == pc \in {"Projecting", "Done"}

DisplayedNames == NamesOf(index.fields, displayed_ids_of(index))

\* C2: the retrieve set and the keys of the format-option plan are within
\* the displayed set, and every member of a hit's document and of its
\* formatted document (the computed _geoDistance aside) is a displayed
\* field or holds one.
OnlyDisplayedFields ==
    PlanDone =>
        /\ locals.to_retrieve_ids \subseteq displayed_ids_of(index)
        /\ DOMAIN locals.formatted_options \subseteq displayed_ids_of(index)
        /\ \A k \in 1..Len(documents) :
              \A key \in (DOMAIN documents[k].document \cup DOMAIN documents[k].formatted)
                         \ {GEO_DISTANCE} :
                  \E name \in DisplayedNames : is_faceted_by(name, key)

\* A finished search that asked to retrieve, highlight and crop the field
\* "secret" of an index that does not display it.
HiddenFieldRequested ==
    /\ pc = "Done"
    /\ index.displayed = Some({Fid(F_BODY), Fid(F_DOGGO_NAME)})
    /\ query.attributes_to_retrieve = Some({F_SECRET, F_TITLE, F_NOPE})
    /\ query.attributes_to_highlight = Some({STAR, F_SECRET})
    /\ query.attributes_to_crop = Some(<<<<"secret", ":", "2">>>>)
    /\ Len(result.val.hits) = 1
    /\ DOMAIN locals.formatted_options = {Fid(F_BODY), Fid(F_DOGGO_NAME)}

TopLevelOffends(e) == e.t \notin {"str", "arr"}

InnerOffenders(e) == IF e.t = "arr" THEN {j \in 1..Len(e.v) : e.v[j].t # "str"} ELSE {}

Offends(e) == TopLevelOffends(e) \/ InnerOffenders(e) # {}

IllShaped(f) ==
    \/ f.t \notin {"str", "arr"}
    \/ f.t = "arr" /\ \E i \in 1..Len(f.v) : Offends(f.v[i])

\* The first offending value of an ill-shaped expression, left to right and
\* depth first, with the shapes expected in its place.
FirstOffender(f) ==
    IF f.t # "arr" THEN InvalidExpression(<<"Array">>, f)
    ELSE IF TopLevelOffends(f.v[Least({n \in 1..Len(f.v) : Offends(f.v[n])})])
    THEN InvalidExpression(<<"String", "[String]">>,
                           f.v[Least({n \in 1..Len(f.v) : Offends(f.v[n])})])
    ELSE InvalidExpression(<<"String">>,
            f.v[Least({n \in 1..Len(f.v) : Offends(f.v[n])})].v[
                Least(InnerOffenders(f.v[Least({n \in 1..Len(f.v) : Offends(f.v[n])})]))])

\* C3: compiling an ill-shaped filter expression fails with the error that
\* carries the first offending value and the shapes expected there
\* ("Array" at the top, "String" / "[String]" for an element, "String" in
\* an inner array); no filter is set, the predicate builder and the engine
\* are never called.
IllShapedFilterRejected ==
    /\ [][(pc = "Bounded" /\ query.filter.some /\ IllShaped(query.filter.val)) =>
            /\ pc' = "Failed"
            /\ result' = Err(FirstOffender(query.filter.val))
            /\ search'.filter = None
            /\ calls' = calls]_vars
    /\ []((query.filter.some /\ IllShaped(query.filter.val)) =>
            /\ search.filter = None
            /\ CallsTo({"Filter::from_str", "Filter::from_array", "search.execute"}) = {})

\* The search of ["c", ["a", 1]] failed on the number 1, expecting a String.
InnerNumberRejected ==
    /\ pc = "Failed"
    /\ query.filter = Some(JArr(<<JStr(<<"c">>), JArr(<<JStr(<<"a">>), JNum(1)>>)>>))
    /\ result = Err(InvalidExpression(<<"String">>, JNum(1)))

WellShaped(arr) ==
    \A i \in 1..Len(arr) :
        \/ arr[i].t = "str"
        \/ arr[i].t = "arr" /\ \A j \in 1..Len(arr[i].v) : arr[i].v[j].t = "str"

\* One entry per element: a leaf for a string, the OR group of its strings
\* for an array.
EntriesOf(arr) ==
    [i \in 1..Len(arr) |->
        IF arr[i].t = "str" THEN Right(arr[i].v)
        ELSE Left([j \in 1..Len(arr[i].v) |-> arr[i].v[j].v])]

\* C4: for an array of strings and arrays of strings, the one call made to
\* the predicate builder carries one AND-ed entry per element, in input
\* order, a leaf per string and an OR group per array; the empty array
\* compiles to no filter, and the engine then runs with no filter.
ArrayFilterHandedInOrder ==
    /\ [][(/\ pc = "Bounded" /\ query.filter.some
           /\ query.filter.val.t = "arr" /\ WellShaped(query.filter.val.v)) =>
            /\ calls' = Append(calls, Call("Filter::from_array", EntriesOf(query.filter.val.v)))
            /\ (query.filter.val.v = <<>> => pc' = "Filtered" /\ search'.filter = None)]_vars
    /\ [](query.filter = Some(JArr(<<>>)) =>
            /\ search.filter = None
            /\ \A k \in CallsTo({"search.execute"}) : calls[k].arg.filter = None)

\* The filter ["c", ["a", "b"]] reached the engine as AND(c, OR(a, b)).
AndOfLeafAndOrGroup ==
    \E k \in CallsTo({"search.execute"}) :
        /\ query.filter = Some(JArr(<<JStr(<<"c">>), JArr(<<JStr(<<"a">>), JStr(<<"b">>)>>)>>))
        /\ calls[k].arg.filter = Some([condition |-> <<Right(<<"c">>), Left(<<<<"a">>, <<"b">>>>)>>])
        /\ calls[k - 1] = Call("Filter::from_array", <<Right(<<"c">>), Left(<<<<"a">>, <<"b">>>>)>>)

RequestedHighlights == unwrap_or(query.attributes_to_highlight, {})

RequestedCrops == unwrap_or(query.attributes_to_crop, <<>>)

Colons(attr) == {i \in 1..Len(attr) : attr[i] = ":"}

\* The text of a crop attribute before its rightmost colon, and after it.
CropNameOf(attr) ==
    IF Colons(attr) = {} THEN attr ELSE SubSeq(attr, 1, Greatest(Colons(attr)) - 1)

CropSuffixOf(attr) == SubSeq(attr, Greatest(Colons(attr)) + 1, Len(attr))

Unsigned(text) == IF text # <<>> /\ text[1] = "+" THEN Tail(text) ELSE text

ParsesAsLength(text) ==
    /\ Unsigned(text) # <<>>
    /\ \A i \in 1..Len(Unsigned(text)) : IsDigit(Unsigned(text)[i])
    /\ DigitsValue(Unsigned(text)) <= MaxUsize

CropLengthOf(attr) ==
    IF Colons(attr) # {} /\ ParsesAsLength(CropSuffixOf(attr))
    THEN DigitsValue(Unsigned(CropSuffixOf(attr)))
    ELSE query.crop_length

\* The displayed fields a requested highlight, or a requested crop, names.
HighlightResolved ==
    {id \in displayed_ids_of(index) :
        STAR \in RequestedHighlights
        \/ fields_ids_map_name(index.fields, id) \in RequestedHighlights}

CropsNaming(id) ==
    {k \in 1..Len(RequestedCrops) :
        CropNameOf(RequestedCrops[k]) \in {STAR, fields_ids_map_name(index.fields, id)}}

CropResolved == {id \in displayed_ids_of(index) : CropsNaming(id) # {}}

\* C5: when no requested highlight or crop names a displayed field the plan
\* is empty and every hit's formatted document is empty; otherwise the keys
\* of the plan are the named fields and the retrieve set, a field that is
\* only retrieved has {highlight: false, crop: None} and a named field
\* keeps its highlight or crop.
FormattedOnlyWhenPlanned ==
    PlanDone =>
        IF HighlightResolved \cup CropResolved = {}
        THEN /\ DOMAIN locals.formatted_options = {}
             /\ \A k \in 1..Len(documents) : DOMAIN documents[k].formatted = {}
        ELSE /\ DOMAIN locals.formatted_options =
                    HighlightResolved \cup CropResolved \cup locals.to_retrieve_ids
             /\ \A id \in locals.to_retrieve_ids \ (HighlightResolved \cup CropResolved) :
                    locals.formatted_options[id] = FormatOptions(FALSE, None)
             /\ \A id \in HighlightResolved \cup CropResolved :
                    \/ locals.formatted_options[id].highlight
                    \/ locals.formatted_options[id].crop.some

\* A finished search that highlights "title" alone and retrieves every
\* field: the plan holds the title and the fields only retrieved.
RetrievedJoinHighlighted ==
    /\ pc = "Done"
    /\ HighlightResolved = {Fid(F_TITLE)}
    /\ CropResolved = {}
    /\ Fid(F_TITLE) \in locals.to_retrieve_ids
    /\ Cardinality(locals.to_retrieve_ids) > 1
    /\ Len(result.val.hits) > 0
    /\ DOMAIN result.val.hits[1].formatted # {}

\* C6: a displayed field named by a crop attribute (or by "*") is planned
\* with the crop length of the last attribute naming it, the number after
\* the rightmost colon of the attribute when that parses and the crop
\* length of the request otherwise, and keeps the highlight it was given; a
\* field no crop attribute names has no crop.
CropLengthPlanned ==
    PlanDone =>
        \A id \in displayed_ids_of(index) :
            IF CropsNaming(id) # {}
            THEN /\ id \in DOMAIN locals.formatted_options
                 /\ locals.formatted_options[id] =
                        FormatOptions(id \in HighlightResolved,
                                      Some(CropLengthOf(RequestedCrops[Greatest(CropsNaming(id))])))
            ELSE id \in DOMAIN locals.formatted_options =>
                    locals.formatted_options[id] = FormatOptions(id \in HighlightResolved, None)

\* "body:5" under the crop length 3 and a highlight of the body: body is
\* planned with highlight and the crop 5.
BodyCroppedAtFive ==
    /\ pc = "Done"
    /\ query.attributes_to_crop = Some(<<<<"body", ":", "5">>>>)
    /\ query.crop_length = 3
    /\ query.attributes_to_highlight = Some({F_TITLE, F_BODY})
    /\ locals.formatted_options[Fid(F_BODY)] = FormatOptions(TRUE, Some(5))

\* The entries of the sort list that match GEO_REGEX.
GeoEntries ==
    IF query.sort.some
    THEN {i \in 1..Len(query.sort.val) : GEO_REGEX_captures(query.sort.val[i]).some}
    ELSE {}

\* The point of the first of them.
FirstGeoPoint ==
    [k \in 1..2 |->
        parse_f64(GEO_REGEX_captures(query.sort.val[Least(GeoEntries)]).val[k]).val]

\* The displayed document of the k-th stored record of the page, and the
\* part of it that is retrieved.
Displayed(k) ==
    make_document(locals.displayed_ids, index.fields, locals.documents_iter[k].obkv).val

Retrieved(k) == select_values(Displayed(k), NamesOf(index.fields, locals.to_retrieve_ids))

HasPoint(document) ==
    /\ GEO \in DOMAIN document
    /\ document[GEO].t = "obj"
    /\ {LAT, LNG} \subseteq DOMAIN document[GEO].v
    /\ document[GEO].v[LAT].t = "num"
    /\ document[GEO].v[LNG].t = "num"

\* C7: the document of a hit is the retrieved document, with _geoDistance
\* set to the distance from the point of the first sort entry matching
\* _geoPoint(lat,lng) when there is such an entry and the document has a
\* _geo object with numeric lat and lng, and with nothing changed otherwise;
\* no other key is added, removed or modified.
GeoDistanceFromFirstDirective ==
    \A k \in 1..Len(documents) :
        /\ DOMAIN documents[k].document \ {GEO_DISTANCE} = DOMAIN Retrieved(k) \ {GEO_DISTANCE}
        /\ \A key \in DOMAIN Retrieved(k) \ {GEO_DISTANCE} :
              documents[k].document[key] = Retrieved(k)[key]
        /\ IF GeoEntries # {} /\ HasPoint(Retrieved(k))
           THEN /\ GEO_DISTANCE \in DOMAIN documents[k].document
                /\ documents[k].document[GEO_DISTANCE] =
                      JNum(distance_rounded(FirstGeoPoint, Retrieved(k)[GEO].v[LAT].v,
                                            Retrieved(k)[GEO].v[LNG].v))
           ELSE documents[k].document = Retrieved(k)

\* A finished search sorted by two geo directives of different points: the
\* first hit holds a distance, the third (a _geo without a numeric lng) and
\* the second (a _geo that is no object) do not.
TwoGeoDirectives ==
    /\ pc = "Done"
    /\ query.sort = Some(<<<<"_geoPoint(", " ", "3", " ", ",", " ", "4", ".", "5", " ", ")", ":", "asc">>,
                           <<"_geoPoint(", "1", ",", "2", ")", ":", "desc">>>>)
    /\ Len(result.val.hits) = 3
    /\ GEO_DISTANCE \in DOMAIN result.val.hits[1].document
    /\ result.val.hits[1].document[GEO_DISTANCE] # JNum(0)
    /\ GEO \in DOMAIN result.val.hits[2].document
    /\ GEO_DISTANCE \notin DOMAIN result.val.hits[2].document
    /\ GEO_DISTANCE \notin DOMAIN result.val.hits[3].document

StageOf(fn) ==
    CASE fn = "read_txn" -> 0
      [] fn \in {"Filter::from_str", "Filter::from_array"} -> 1
      [] fn = "AscDesc::from_str" -> 2
      [] fn = "search.execute" -> 3
      [] fn \in {"displayed_fields_ids", "documents"} -> 4
      [] fn = "facet_distribution.execute" -> 5

InvalidSortToken ==
    /\ query.sort.some
    /\ \E t \in 1..Len(query.sort.val) : ~AscDesc_from_str(query.sort.val[t]).ok

Corrupt(id) == \E f \in DOMAIN index.docs[id] : index.docs[id][f].t = "corrupt"

\* C8: a call has no result before it ends, ends failed with an error and
\* no hit, or done with one hit per document of the page, none of them
\* undecodable; a step that fails returns the error at once; the calls are
\* made in the order filter, sort, engine, documents, facets; the engine is
\* called only after the filter was compiled and every sort token parsed;
\* an invalid sort token sets no sort criteria and no engine call follows.
NoPartialResult ==
    /\ [](pc \notin {"Done", "Failed"} => result = None)
    /\ [](pc = "Failed" => ~result.ok /\ documents = <<>>)
    /\ [](pc = "Done" =>
            /\ result.ok
            /\ result.val.hits = documents
            /\ Len(documents) = Len(engine.documents_ids)
            /\ \A k \in 1..Len(engine.documents_ids) : ~Corrupt(engine.documents_ids[k])
            /\ result.val.facet_distribution.some = query.facets.some)
    /\ [](\A i, j \in 1..Len(calls) : i < j => StageOf(calls[i].fn) <= StageOf(calls[j].fn))
    /\ [](\A k \in CallsTo({"search.execute"}) :
            /\ query.filter.some =>
                  \E i \in 1..(k - 1) : calls[i].fn \in {"Filter::from_str", "Filter::from_array"}
            /\ query.sort.some =>
                  /\ \E i \in 1..(k - 1) : calls[i].fn = "AscDesc::from_str"
                  /\ search.sort_criteria.some
                  /\ Len(search.sort_criteria.val) = Len(query.sort.val))
    /\ [](InvalidSortToken =>
            /\ search.sort_criteria = None
            /\ CallsTo({"search.execute"}) = {}
            /\ pc \in {"Received", "Bounded", "Filtered", "Failed"})
    /\ [][(pc' = "Failed" /\ pc # "Failed") => (~result'.ok /\ documents' = <<>>)]_vars
    /\ [][(pc = "Projecting" /\ Len(documents) < Len(locals.documents_iter)
           /\ Corrupt(locals.documents_iter[Len(documents) + 1].id)) =>
            (pc' = "Failed" /\ result' = Err([kind |-> "SerdeJson"]))]_vars
    /\ [][pc \notin {"Done", "Failed"}]_vars

\* The second document of the page could not be decoded: the call failed
\* with that error and the hit built from the first is gone.
DecodeFailureDropsHits ==
    /\ pc = "Failed"
    /\ result = Err([kind |-> "SerdeJson"])
    /\ Len(engine.documents_ids) >= 2
    /\ engine.documents_ids[1] = 1
    /\ ~Corrupt(1)
    /\ documents = <<>>

\* C9: in a successful result estimated_total_hits is the size of the
\* candidate set of the engine, whatever the offset, the limit and the
\* number of hits, and the hits are those of the documents the engine
\* returned, one for each and in its order.
TotalIsCandidateCount ==
    pc = "Done" =>
        /\ result.val.estimated_total_hits = Cardinality(engine.candidates)
        /\ Len(result.val.hits) = Len(engine.documents_ids)
        /\ \A k \in 1..Len(result.val.hits) :
              /\ locals.documents_iter[k].id = engine.documents_ids[k]
              /\ \A key \in DOMAIN Retrieved(k) \ {GEO_DISTANCE} :
                    /\ key \in DOMAIN result.val.hits[k].document
                    /\ result.val.hits[k].document[key] = Retrieved(k)[key]
              /\ F_ID \in DOMAIN result.val.hits[k].document =>
                    result.val.hits[k].document[F_ID] = JNum(engine.documents_ids[k])

\* Limit 2 from offset 1 over four candidates: the two hits are the second
\* and the third candidate and the total is four.
TwoHitsOfFour ==
    /\ pc = "Done"
    /\ query.limit = 2
    /\ query.offset = Some(1)
    /\ Cardinality(engine.candidates) = 4
    /\ Len(result.val.hits) = 2
    /\ result.val.estimated_total_hits = 4
    /\ result.val.hits[1].document[F_ID] = JNum(2)
    /\ result.val.hits[2].document[F_ID] = JNum(3)

\* The leaves map_leaf_values visits in the k-th document of the page.
VisitedLeaves(k) ==
    Range(leaves_in_object(Displayed(k), NamesOf(index.fields, locals.displayed_ids), <<>>))

\* key is neither an ancestor nor a descendant of a planned field.
Unplanned(key) ==
    \A fid \in DOMAIN locals.formatted_options :
        /\ ~is_faceted_by(fields_ids_map_name(index.fields, fid), key)
        /\ ~is_faceted_by(key, fields_ids_map_name(index.fields, fid))

LeafText(value) ==
    IF value.t = "str" THEN value.v
    ELSE IF value.t = "num" THEN number_to_string(value.v)
    ELSE <<>>

HasMatchedTerm(value) ==
    \E i \in 1..Len(LeafText(value)) : LeafText(value)[i] \in engine.matching_words

LeavesAt(document, key) ==
    {leaf \in Range(leaves_in_object(document, {key}, <<>>)) : leaf.key = key}

\* C10 as claimed: a visited leaf related to no planned field is absent
\* from the formatted document and has no entry in the match positions.
UnplannedLeafHasNoMatchEntry ==
    \A k \in 1..Len(documents) :
        \A leaf \in VisitedLeaves(k) :
            Unplanned(leaf.key) =>
                /\ LeavesAt(documents[k].formatted, leaf.key) = {}
                /\ documents[k].matches_position.some =>
                      leaf.key \notin DOMAIN documents[k].matches_position.val

\* C10: a visited leaf related to no planned field is absent from the
\* formatted document; the match positions are there exactly when they are
\* requested and then hold an entry for the key of the leaf exactly when a
\* leaf of that key has a matched term in its text.
UnplannedLeafKeepsMatchEntry ==
    \A k \in 1..Len(documents) :
        \A leaf \in VisitedLeaves(k) :
            Unplanned(leaf.key) =>
                /\ LeavesAt(documents[k].formatted, leaf.key) = {}
                /\ documents[k].matches_position.some = query.show_matches_position
                /\ documents[k].matches_position.some =>
                      (leaf.key \in DOMAIN documents[k].matches_position.val
                          <=> \E other \in VisitedLeaves(k) :
                                  other.key = leaf.key /\ HasMatchedTerm(other.value))

\* Match positions requested, the title alone planned: the body of the
\* first hit, which holds the query word, has its entry and is not in the
\* formatted document.
UnplannedBodyMatched ==
    /\ pc = "Done"
    /\ query.show_matches_position
    /\ DOMAIN locals.formatted_options = {Fid(F_TITLE)}
    /\ Unplanned(F_BODY)
    /\ Len(result.val.hits) > 0
    /\ F_BODY \in DOMAIN result.val.hits[1].matches_position.val
    /\ DOMAIN result.val.hits[1].formatted = {F_TITLE}

\* The value with every number in it, at any depth, replaced by its text.
RECURSIVE NumbersAsText(_)
NumbersAsText(value) ==
    IF value.t = "num" THEN JStr(number_to_string(value.v))
    ELSE IF value.t = "arr" THEN JArr([i \in 1..Len(value.v) |-> NumbersAsText(value.v[i])])
    ELSE IF value.t = "obj" THEN JObj([key \in DOMAIN value.v |-> NumbersAsText(value.v[key])])
    ELSE value

\* The retrieved fields no highlight and no crop was requested for.
OnlyRetrieved == locals.to_retrieve_ids \ (HighlightResolved \cup CropResolved)

\* A field requested for highlight or crop is an ancestor or a descendant
\* of the field id.
OverlapsRequested(id) ==
    \E other \in HighlightResolved \cup CropResolved :
        \/ is_faceted_by(fields_ids_map_name(index.fields, other),
                         fields_ids_map_name(index.fields, id))
        \/ is_faceted_by(fields_ids_map_name(index.fields, id),
                         fields_ids_map_name(index.fields, other))

\* C11 as claimed: with a non-empty plan, the part of the formatted
\* document of a hit under a field that is only retrieved equals the part
\* of the displayed document under it.
OnlyRetrievedIsPlainCopy ==
    PlanDone =>
        \A k \in 1..Len(documents) :
            \A id \in OnlyRetrieved :
                DOMAIN locals.formatted_options # {} =>
                    select_values(documents[k].formatted,
                                  {fields_ids_map_name(index.fields, id)})
                    = select_values(Displayed(k), {fields_ids_map_name(index.fields, id)})

\* C11: with a non-empty plan, the part of the formatted document of a hit
\* under a field that is only retrieved, and neither above nor below a
\* field requested for highlight or crop, is the part of the displayed
\* document under it with every number replaced by its text.
OnlyRetrievedIsCopyWithNumbersAsText ==
    PlanDone =>
        \A k \in 1..Len(documents) :
            \A id \in OnlyRetrieved :
                (DOMAIN locals.formatted_options # {} /\ ~OverlapsRequested(id)) =>
                    select_values(documents[k].formatted,
                                  {fields_ids_map_name(index.fields, id)})
                    = select_values([key \in DOMAIN Displayed(k) |->
                                        NumbersAsText(Displayed(k)[key])],
                                    {fields_ids_map_name(index.fields, id)})

\* The title is highlighted and the rest only retrieved: in the formatted
\* document of the second hit the number of the body is a text, the null
\* and the array with a boolean are copies.
NumberCopiedAsText ==
    /\ pc = "Done"
    /\ HighlightResolved = {Fid(F_TITLE)}
    /\ CropResolved = {}
    /\ Len(result.val.hits) = 2
    /\ {Fid(F_BODY), Fid(F_SECRET), Fid(F_DOGGO)} \subseteq OnlyRetrieved
    /\ result.val.hits[2].document[F_BODY] = JNum(7)
    /\ result.val.hits[2].formatted[F_BODY] = JStr(<<"7">>)
    /\ result.val.hits[2].formatted[F_SECRET] = JNull
    /\ result.val.hits[2].formatted[F_DOGGO] = result.val.hits[2].document[F_DOGGO]
    /\ result.val.hits[1].formatted[F_BODY] = result.val.hits[1].document[F_BODY]

\* A nested value as the claim describes it: each string and number below
\* formatted with the given highlight flag and no crop, the rest as it is.
RECURSIVE FormattedWithoutCrop(_, _, _)
FormattedWithoutCrop(value, matching_words, highlight) ==
    IF value.t = "str"
    THEN JStr(matcher_format(matching_words, value.v, FormatOptions(highlight, None)))
    ELSE IF value.t = "num"
    THEN JStr(matcher_format(matching_words, number_to_string(value.v),
                             FormatOptions(highlight, None)))
    ELSE IF value.t = "arr"
    THEN JArr([i \in 1..Len(value.v) |->
                  FormattedWithoutCrop(value.v[i], matching_words, highlight)])
    ELSE IF value.t = "obj"
    THEN JObj([key \in DOMAIN value.v |->
                  FormattedWithoutCrop(value.v[key], matching_words, highlight)])
    ELSE value

\* C12: format_value gives an array or an object formatted with options
\* the same container with every string and number in it, at every depth,
\* formatted with the highlight flag of the options and no crop, and every
\* boolean and null in it unchanged; a boolean or a null comes back
\* unchanged, and a value formatted with no options comes back as it was.
NestedFormattedWithoutCrop ==
    pc = "Formatted" =>
        /\ (locals.format_options.some /\ locals.value.t \in {"arr", "obj"}) =>
              result.value = FormattedWithoutCrop(locals.value, engine.matching_words,
                                                  locals.format_options.val.highlight)
        /\ locals.value.t \in {"bool", "null"} => result.value = locals.value
        /\ ~locals.format_options.some => result.value = locals.value

\* An array holding an object is formatted with highlight and a crop of one
\* word: the texts two and one level down are highlighted in full, with no
\* crop marker.
NestedTextHighlightedNotCropped ==
    /\ pc = "Formatted"
    /\ locals.format_options = Some(FormatOptions(TRUE, Some(1)))
    /\ locals.value = JArr(<<JObj(<<"name">> :> JStr(NestedText)), JStr(NestedText)>>)
    /\ result.value =
          JArr(<<JObj(<<"name">> :> JStr(<<"a", DEFAULT_HIGHLIGHT_PRE_TAG, "shoe",
                                          DEFAULT_HIGHLIGHT_POST_TAG, "box">>)),
                 JStr(<<"a", DEFAULT_HIGHLIGHT_PRE_TAG, "shoe",
                        DEFAULT_HIGHLIGHT_POST_TAG, "box">>)>>)

\* C13: a successful result reports the limit of the request and its
\* offset, 0 when the request has none; when either is above
\* HARD_RESULT_LIMIT the reported offset and limit sum to more than it,
\* while the offset and limit handed to the engine do not.
ReportedPaginationIsRequested ==
    pc = "Done" =>
        /\ result.val.limit = query.limit
        /\ result.val.offset = RequestedOffset
        /\ (query.limit > HARD_RESULT_LIMIT \/ RequestedOffset > HARD_RESULT_LIMIT) =>
              /\ result.val.offset + result.val.limit > HARD_RESULT_LIMIT
              /\ search.offset + search.limit <= HARD_RESULT_LIMIT
              /\ \A k \in CallsTo({"search.execute"}) :
                    calls[k].arg.offset + calls[k].arg.limit <= HARD_RESULT_LIMIT

\* An offset of 2 with a limit one above the ceiling: the result reports
\* both as requested, the engine was asked for 998 from 2.
ReportedAboveCeiling ==
    /\ pc = "Done"
    /\ query.offset = Some(2)
    /\ query.limit = HARD_RESULT_LIMIT + 1
    /\ result.val.offset = 2
    /\ result.val.limit = HARD_RESULT_LIMIT + 1
    /\ search.offset = 2
    /\ search.limit = HARD_RESULT_LIMIT - 2

=============================================================================
